---- MODULE Spec2Model ----
(***************************************************************************)
(* Model of web/app.py. The rclone.conf handling: the section parser and   *)
(* serializer, the redacted views, the remote CRUD handlers, the bulk      *)
(* upload with its timestamped backup, and two requests in two threads.    *)
(* The log stream with its tail process, and the CRUD of the backup jobs.  *)
(*                                                                         *)
(* Text is a sequence of one-character strings; "\n" is the line break.    *)
(* An OrderedDict is a sequence of entries in insertion order.             *)
(***************************************************************************)
EXTENDS Integers, Sequences, FiniteSets, TLC

\* conf      the file RCLONE_CONF: [exists, text]
\* baks      the files RCLONE_CONF.bak.<ts>: a function from ts to text
\* now       the wall clock at the last upload, in ticks
\* budget    the requests still to come
\* req       the last request handled: [op, name, data]
\* resp      its response: [status, error, body]
\* old       conf as that request found it
\* sections  the document that request held in memory
\* replaced  the contents successful uploads have replaced, in order
\* thr       the request threads of the server: for each its position in the
\*           handler, its request, the text it is writing and its response
\* hist      the steps those threads have taken on RCLONE_CONF, in order
\* gen       the generator of a log stream: its position in generate() and
\*           the line it has read
\* proc      the `tail -f` process of that stream
\* pipe      the lines in the pipe from tail, still to be read
\* log       the lines in the log file that tail has still to relay
\* client    the client of the stream: "connected" or "gone"
\* sent      the events written to the client, and the lines appended to the
\*           log file, so far: [events, lines]
\* jobs      the file JOBS_FILE: the list of the backup jobs, [] if missing
VARIABLES conf, baks, now, budget, req, resp, old, sections, replaced,
          thr, hist, gen, proc, pipe, log, client, sent, jobs

raceVars == <<thr, hist>>

streamVars == <<gen, proc, pipe, log, client, sent>>

vars == <<conf, baks, now, budget, req, resp, old, sections, replaced,
          raceVars, streamVars, jobs>>

(***************************************************************************)
(* Bounds of the model.                                                    *)
(***************************************************************************)
\* lines of a generated config text
MaxLines == 4
\* requests handled in one behaviour of Spec
MaxReq == 2
\* ticks the wall clock advances
MaxTime == 2

(***************************************************************************)
(* Strings.                                                                *)
(***************************************************************************)
NL == "\n"

\* the characters str.strip() and the regex class \s remove
WS == {" ", NL, "\t"}

MinOf(S) == CHOOSE x \in S : \A y \in S : x <= y

MaxOf(S) == 0 - MinOf({0 - x : x \in S})

\* str.strip()
strip(s) ==
    LET keep == {i \in 1..Len(s) : s[i] \notin WS}
    IN  IF keep = {} THEN <<>> ELSE SubSeq(s, MinOf(keep), MaxOf(keep))

\* c in s
contains(s, c) == \E i \in 1..Len(s) : s[i] = c

\* s.partition(c): the text before the first c, and the text after it
partition_head(s, c) == SubSeq(s, 1, MinOf({i \in 1..Len(s) : s[i] = c}) - 1)

partition_tail(s, c) == SubSeq(s, MinOf({i \in 1..Len(s) : s[i] = c}) + 1, Len(s))

\* the lines of t that end at the indices of `ends`, the first from `from`
RECURSIVE cut_lines(_, _, _)
cut_lines(t, from, ends) ==
    IF ends = {} THEN <<>>
    ELSE LET e == MinOf(ends)
         IN  <<SubSeq(t, from, e - 1)>> \o cut_lines(t, e + 1, ends \ {e})

\* iterating a text file: the lines, each without its line break; a text
\* that does not end in a line break has a last line all the same
file_lines(t) ==
    LET brk == {i \in 1..Len(t) : t[i] = NL}
    IN  cut_lines(t, 1, IF t # <<>> /\ t[Len(t)] # NL
                        THEN brk \cup {Len(t) + 1} ELSE brk)

\* re.match(r'^\[(.+)\]$', s) on a text without line breaks
header_match(s) == Len(s) >= 3 /\ s[1] = "[" /\ s[Len(s)] = "]"

header_group(s) == SubSeq(s, 2, Len(s) - 1)

(***************************************************************************)
(* The string literals of app.py, as character sequences.                  *)
(***************************************************************************)
S_type == <<"t", "y", "p", "e">>

S_token == <<"t", "o", "k", "e", "n">>

S_client_secret == <<"c", "l", "i", "e", "n", "t",
                     "_", "s", "e", "c", "r", "e", "t">>

S_secret_access_key == <<"s", "e", "c", "r", "e", "t", "_", "a",
                         "c", "c", "e", "s", "s", "_", "k", "e", "y">>

S_pass == <<"p", "a", "s", "s">>

S_password == <<"p", "a", "s", "s", "w", "o", "r", "d">>

S_app_key == <<"a", "p", "p", "_", "k", "e", "y">>

S_app_secret == <<"a", "p", "p", "_", "s", "e", "c", "r", "e", "t">>

S_name == <<"n", "a", "m", "e">>

S_provider == <<"p", "r", "o", "v", "i", "d", "e", "r">>

S_drive_type == <<"d", "r", "i", "v", "e", "_", "t", "y", "p", "e">>

S_drive_id == <<"d", "r", "i", "v", "e", "_", "i", "d">>

S_root_folder_id == <<"r", "o", "o", "t", "_", "f", "o",
                      "l", "d", "e", "r", "_", "i", "d">>

S_s3_provider == <<"s", "3", "_", "p", "r", "o", "v", "i", "d", "e", "r">>

S_access_key_id == <<"a", "c", "c", "e", "s", "s",
                     "_", "k", "e", "y", "_", "i", "d">>

S_region == <<"r", "e", "g", "i", "o", "n">>

S_endpoint == <<"e", "n", "d", "p", "o", "i", "n", "t">>

S_acl == <<"a", "c", "l">>

S_host == <<"h", "o", "s", "t">>

S_port == <<"p", "o", "r", "t">>

S_user == <<"u", "s", "e", "r">>

S_key_file == <<"k", "e", "y", "_", "f", "i", "l", "e">>

S_url == <<"u", "r", "l">>

S_vendor == <<"v", "e", "n", "d", "o", "r">>

S_onedrive == <<"o", "n", "e", "d", "r", "i", "v", "e">>

S_gdrive == <<"g", "d", "r", "i", "v", "e">>

S_drive == <<"d", "r", "i", "v", "e">>

S_dropbox == <<"d", "r", "o", "p", "b", "o", "x">>

S_s3 == <<"s", "3">>

S_sftp == <<"s", "f", "t", "p">>

S_webdav == <<"w", "e", "b", "d", "a", "v">>

S_personal == <<"p", "e", "r", "s", "o", "n", "a", "l">>

S_business == <<"b", "u", "s", "i", "n", "e", "s", "s">>

S_documentLibrary == <<"d", "o", "c", "u", "m", "e", "n",
                       "t", "L", "i", "b", "r", "a", "r", "y">>

S_AWS == <<"A", "W", "S">>

S_refresh_token == <<"r", "e", "f", "r", "e", "s",
                     "h", "_", "t", "o", "k", "e", "n">>

REDACTED == <<"[", "R", "E", "D", "A", "C", "T", "E", "D", "]">>

(***************************************************************************)
(* OrderedDict: a sequence of [k, v] entries with distinct k.              *)
(***************************************************************************)
od_keys(d) == {d[i].k : i \in 1..Len(d)}

od_has(d, k) == \E i \in 1..Len(d) : d[i].k = k

od_index(d, k) == CHOOSE i \in 1..Len(d) : d[i].k = k

od_get(d, k) == d[od_index(d, k)].v

\* d[k] = v: an existing key keeps its place, a new key goes last
od_set(d, k, v) ==
    IF od_has(d, k) THEN [d EXCEPT ![od_index(d, k)].v = v]
    ELSE Append(d, [k |-> k, v |-> v])

\* od_del with the tail taken one entry too far: the next entry goes too
od_del_off_by_one(d, k) ==
    LET i == od_index(d, k)
    IN  SubSeq(d, 1, i - 1) \o SubSeq(d, i + 2, Len(d))

\* del d[k]
od_del(d, k) ==
    LET i == od_index(d, k)
    IN  SubSeq(d, 1, i - 1) \o SubSeq(d, i + 1, Len(d))

(***************************************************************************)
(* The config file: [exists, text].                                        *)
(***************************************************************************)
NoFile == [exists |-> FALSE, text |-> <<>>]

File(t) == [exists |-> TRUE, text |-> t]

\* read_line with a repeated header keeping the keys the section has
read_line_reuse(st, line) ==
    LET s == strip(line)
    IN  IF header_match(s)
        THEN [sections |-> IF od_has(st.sections, header_group(s))
                           THEN st.sections
                           ELSE od_set(st.sections, header_group(s), <<>>),
              current |-> header_group(s), has |-> TRUE]
        ELSE IF st.has /\ contains(line, "=")
        THEN [st EXCEPT !.sections =
                od_set(st.sections, st.current,
                       od_set(od_get(st.sections, st.current),
                              strip(partition_head(line, "=")),
                              strip(partition_tail(line, "="))))]
        ELSE st

\* one step of the loop of read_rclone_sections: st = [sections, current, has]
read_line(st, line) ==
    LET s == strip(line)
    IN  IF header_match(s)
        THEN [sections |-> od_set(st.sections, header_group(s), <<>>),
              current |-> header_group(s), has |-> TRUE]
        ELSE IF st.has /\ contains(line, "=")
        THEN [st EXCEPT !.sections =
                od_set(st.sections, st.current,
                       od_set(od_get(st.sections, st.current),
                              strip(partition_head(line, "=")),
                              strip(partition_tail(line, "="))))]
        ELSE st

RECURSIVE read_loop(_, _)
read_loop(st, lines) ==
    IF lines = <<>> THEN st
    ELSE read_loop(read_line(st, Head(lines)), Tail(lines))

\* read_rclone_sections() on file f: a missing file is an empty document
read_rclone_sections(f) ==
    IF ~f.exists THEN <<>>
    ELSE read_loop([sections |-> <<>>, current |-> <<>>, has |-> FALSE],
                   file_lines(f.text)).sections

\* write_params without the line break that ends a key line
RECURSIVE write_params_nobreak(_)
write_params_nobreak(p) ==
    IF p = <<>> THEN <<>>
    ELSE Head(p).k \o <<" ", "=", " ">> \o Head(p).v
         \o write_params_nobreak(Tail(p))

\* the loop of write_rclone_sections over the keys of a section
RECURSIVE write_params(_)
write_params(p) ==
    IF p = <<>> THEN <<>>
    ELSE Head(p).k \o <<" ", "=", " ">> \o Head(p).v \o <<NL>>
         \o write_params(Tail(p))

\* write_from with the blank line after every section, the last included
RECURSIVE write_from_blank_after(_, _)
write_from_blank_after(d, first) ==
    IF d = <<>> THEN <<>>
    ELSE <<"[">> \o Head(d).k \o <<"]", NL>>
         \o write_params(Head(d).v) \o <<NL>>
         \o write_from_blank_after(Tail(d), FALSE)

\* the loop of write_rclone_sections over the sections d
RECURSIVE write_from(_, _)
write_from(d, first) ==
    IF d = <<>> THEN <<>>
    ELSE (IF first THEN <<>> ELSE <<NL>>)
         \o <<"[">> \o Head(d).k \o <<"]", NL>>
         \o write_params(Head(d).v)
         \o write_from(Tail(d), FALSE)

\* write_rclone_sections(d): the file it leaves
write_rclone_sections(d) == File(write_from(d, TRUE))

(***************************************************************************)
(* Responses: [status, error, body].                                       *)
(***************************************************************************)
Ok(body) == [status |-> 200, error |-> "", body |-> body]

Err(status, error) == [status |-> status, error |-> error, body |-> <<>>]

(***************************************************************************)
(* GET /api/remotes/<name>/config                                          *)
(***************************************************************************)
\* the key tuple cut down to the two names the view of the whole file knows
SecretKeys_two == {S_token, S_client_secret}

\* the key tuple of api_get_remote_config
SecretKeys ==
    {S_token, S_client_secret, S_secret_access_key, S_pass, S_password,
     S_app_key, S_app_secret}

\* the loop that builds `safe`
RECURSIVE safe_config(_)
safe_config(p) ==
    IF p = <<>> THEN <<>>
    ELSE <<[k |-> Head(p).k,
            v |-> IF Head(p).k \in SecretKeys THEN REDACTED ELSE Head(p).v]>>
         \o safe_config(Tail(p))

\* the handler on file f: [conf, resp, sections]
api_get_remote_config(f, name) ==
    LET s == read_rclone_sections(f)
    IN  IF ~od_has(s, name)
        THEN [conf |-> f, resp |-> Err(404, "not_found"), sections |-> s]
        ELSE [conf |-> f, resp |-> Ok(safe_config(od_get(s, name))),
              sections |-> s]

(***************************************************************************)
(* GET /api/rclone-config                                                  *)
(***************************************************************************)
\* where \s* stops: the first index >= i of s that holds no whitespace
skip_ws(s, i) ==
    LET rest == {j \in i..Len(s) : s[j] \notin WS}
    IN  IF rest = {} THEN Len(s) + 1 ELSE MinOf(rest)

\* where .* stops: the last index before the next line break at or after i
skip_line(s, i) ==
    LET brk == {j \in i..Len(s) : s[j] = NL}
    IN  IF brk = {} THEN Len(s) ELSE MinOf(brk) - 1

\* whether (lit\s*=\s*).* matches s at index i
re_match_at(lit, s, i) ==
    /\ i + Len(lit) - 1 <= Len(s)
    /\ SubSeq(s, i, i + Len(lit) - 1) = lit
    /\ skip_ws(s, i + Len(lit)) <= Len(s)
    /\ s[skip_ws(s, i + Len(lit))] = "="

\* re.sub(r'(lit\s*=\s*).*', r'\1[REDACTED]', s), scanning from index i:
\* the text up to the leftmost match is kept, the match becomes its group 1
\* and the marker, and the scan goes on behind the match
RECURSIVE re_sub_from(_, _, _)
re_sub_from(lit, s, i) ==
    LET hits == {j \in i..Len(s) : re_match_at(lit, s, j)}
    IN  IF hits = {} THEN SubSeq(s, i, Len(s))
        ELSE LET m == MinOf(hits)
                 g == skip_ws(s, skip_ws(s, m + Len(lit)) + 1) - 1
             IN  SubSeq(s, i, g) \o REDACTED
                 \o re_sub_from(lit, s, skip_line(s, g + 1) + 1)

re_sub(lit, s) == re_sub_from(lit, s, 1)

\* the handler on file f: the redacted content; a missing file reads as ''
api_get_rclone_config(f) ==
    IF ~f.exists THEN Ok(<<>>)
    ELSE Ok(re_sub(S_client_secret, re_sub(S_token, f.text)))

(***************************************************************************)
(* POST /api/remotes                                                       *)
(***************************************************************************)
\* data.get(k, default) of a JSON object, a function on its field names
get(data, k, default) == IF k \in DOMAIN data THEN data[k] ELSE default

\* the characters of [a-zA-Z0-9_-]
NameChars ==
    {"a", "b", "c", "d", "e", "f", "g", "h", "i", "j", "k", "l", "m",
     "n", "o", "p", "q", "r", "s", "t", "u", "v", "w", "x", "y", "z",
     "A", "B", "C", "D", "E", "F", "G", "H", "I", "J", "K", "L", "M",
     "N", "O", "P", "Q", "R", "S", "T", "U", "V", "W", "X", "Y", "Z",
     "0", "1", "2", "3", "4", "5", "6", "7", "8", "9", "_", "-"}

\* re.match(r'^[a-zA-Z0-9_-]+$', name) on a stripped name
name_match(name) ==
    Len(name) >= 1 /\ \A i \in 1..Len(name) : name[i] \in NameChars

\* provider_map.get(provider, provider)
provider_map(provider) == IF provider = S_gdrive THEN S_drive ELSE provider

\* what resolve_onedrive_drive_id can return for a drive type, the answer of
\* the Graph API being any: a failure (ValueError), or an id and a type
DriveIds == {<<"d", "1">>}

resolve_onedrive_drive_id(drive_type) ==
    {[ok |-> FALSE, drive_id |-> <<>>, drive_type |-> <<>>]}
    \cup (IF drive_type \in {S_personal, S_business}
          THEN {[ok |-> TRUE, drive_id |-> d, drive_type |-> t] :
                    d \in DriveIds, t \in {S_personal, S_business}}
          ELSE IF drive_type = S_documentLibrary
          THEN {[ok |-> TRUE, drive_id |-> d, drive_type |-> S_documentLibrary] :
                    d \in DriveIds}
          ELSE {})

\* for key in keys: val = data.get(key, '').strip(); if val: params[key] = val
RECURSIVE add_fields(_, _, _)
add_fields(params, data, keys) ==
    IF keys = <<>> THEN params
    ELSE LET val == strip(get(data, Head(keys), <<>>))
         IN  add_fields(IF val # <<>> THEN od_set(params, Head(keys), val)
                        ELSE params,
                        data, Tail(keys))

\* the params of the new section; g is the Graph API's answer, read only
\* for a onedrive remote with a token
create_params(data, g) ==
    LET provider == strip(get(data, S_provider, <<>>))
        token == strip(get(data, S_token, <<>>))
        p1 == od_set(<<>>, S_type, provider_map(provider))
        p2 == IF token # <<>> THEN od_set(p1, S_token, token) ELSE p1
        p3 == IF provider # S_onedrive THEN p2
              ELSE IF token = <<>>
              THEN od_set(p2, S_drive_type, get(data, S_drive_type, S_personal))
              ELSE od_set(od_set(p2, S_drive_type, g.drive_type),
                          S_drive_id, g.drive_id)
        p4 == IF provider = S_gdrive
              THEN add_fields(p3, data, <<S_root_folder_id>>)
              ELSE p3
        p5 == IF provider = S_s3
              THEN add_fields(
                       od_set(p4, S_provider,
                              strip(get(data, S_s3_provider, S_AWS))),
                       data,
                       <<S_access_key_id, S_secret_access_key, S_region,
                         S_endpoint, S_acl>>)
              ELSE p4
        p6 == IF provider = S_sftp
              THEN add_fields(p5, data,
                              <<S_host, S_port, S_user, S_pass, S_key_file>>)
              ELSE p5
    IN  IF provider = S_webdav
        THEN add_fields(p6, data, <<S_url, S_vendor, S_user, S_pass>>)
        ELSE p6

\* whether the handler asks the Graph API
asks_graph(data) ==
    /\ strip(get(data, S_provider, <<>>)) = S_onedrive
    /\ strip(get(data, S_token, <<>>)) # <<>>

\* api_create_remote without the check for a section of that name
api_create_remote_overwrite(f, data, g) ==
    LET name == strip(get(data, S_name, <<>>))
        provider == strip(get(data, S_provider, <<>>))
        s == read_rclone_sections(f)
    IN  IF name = <<>> \/ provider = <<>>
        THEN [conf |-> f, resp |-> Err(400, "required"), sections |-> <<>>]
        ELSE IF ~name_match(name)
        THEN [conf |-> f, resp |-> Err(400, "bad_name"), sections |-> <<>>]
        ELSE IF asks_graph(data) /\ ~g.ok
        THEN [conf |-> f, resp |-> Err(400, "discovery"), sections |-> s]
        ELSE LET s2 == od_set(s, name, create_params(data, g))
             IN  [conf |-> write_rclone_sections(s2), resp |-> Ok(<<>>),
                  sections |-> s2]

\* the handler on file f: [conf, resp, sections]
api_create_remote(f, data, g) ==
    LET name == strip(get(data, S_name, <<>>))
        provider == strip(get(data, S_provider, <<>>))
        s == read_rclone_sections(f)
    IN  IF name = <<>> \/ provider = <<>>
        THEN [conf |-> f, resp |-> Err(400, "required"), sections |-> <<>>]
        ELSE IF ~name_match(name)
        THEN [conf |-> f, resp |-> Err(400, "bad_name"), sections |-> <<>>]
        ELSE IF od_has(s, name)
        THEN [conf |-> f, resp |-> Err(400, "exists"), sections |-> s]
        ELSE IF asks_graph(data) /\ ~g.ok
        THEN [conf |-> f, resp |-> Err(400, "discovery"), sections |-> s]
        ELSE LET s2 == od_set(s, name, create_params(data, g))
             IN  [conf |-> write_rclone_sections(s2), resp |-> Ok(<<>>),
                  sections |-> s2]

(***************************************************************************)
(* PUT /api/remotes/<name>                                                 *)
(***************************************************************************)
\* the loop over updates.items(), on the params of the section
RECURSIVE apply_updates(_, _)
apply_updates(params, updates) ==
    IF updates = <<>> THEN params
    ELSE LET k == Head(updates).k
             v == strip(Head(updates).v)
         IN  apply_updates(
                 IF v # <<>> THEN od_set(params, k, v)
                 ELSE IF od_has(params, k) /\ k # S_type THEN od_del(params, k)
                 ELSE params,
                 Tail(updates))

\* the handler on file f: [conf, resp, sections]
api_update_remote(f, name, updates) ==
    LET s == read_rclone_sections(f)
    IN  IF ~od_has(s, name)
        THEN [conf |-> f, resp |-> Err(404, "not_found"), sections |-> s]
        ELSE LET s2 == od_set(s, name, apply_updates(od_get(s, name), updates))
             IN  [conf |-> write_rclone_sections(s2), resp |-> Ok(<<>>),
                  sections |-> s2]

(***************************************************************************)
(* DELETE /api/remotes/<name>                                              *)
(***************************************************************************)
\* the handler on file f: [conf, resp, sections]
api_delete_remote(f, name) ==
    LET s == read_rclone_sections(f)
    IN  IF ~od_has(s, name)
        THEN [conf |-> f, resp |-> Err(404, "not_found"), sections |-> s]
        ELSE [conf |-> write_rclone_sections(od_del(s, name)),
              resp |-> Ok(<<>>), sections |-> od_del(s, name)]

(***************************************************************************)
(* POST /api/rclone-config                                                 *)
(***************************************************************************)
\* ticks of the clock in one second
TicksPerSecond == 2

\* datetime.now().strftime('%Y%m%d_%H%M%S') at tick t: the second it lies in
strftime(t) == t \div TicksPerSecond

\* open(RCLONE_CONF + '.bak.' + ts, 'w').write(text) on the backups b, a
\* function from timestamps to contents: a file of that name is replaced
write_backup(b, ts, text) ==
    [x \in DOMAIN b \cup {ts} |-> IF x = ts THEN text ELSE b[x]]

\* the handler on file f and backups b at tick t: [conf, baks, resp]
api_upload_rclone_config(f, b, content, t) ==
    IF strip(content) = <<>>
    THEN [conf |-> f, baks |-> b, resp |-> Err(400, "empty")]
    ELSE [conf |-> File(content),
          baks |-> IF f.exists THEN write_backup(b, strftime(t), f.text) ELSE b,
          resp |-> Ok(<<>>)]

(***************************************************************************)
(* Config texts.                                                           *)
(***************************************************************************)
SP == <<" ">>

\* the text of a sequence of lines, each ended by a line break
RECURSIVE text_of(_)
text_of(lines) ==
    IF lines = <<>> THEN <<>>
    ELSE Head(lines) \o <<NL>> \o text_of(Tail(lines))

hdr(n) == <<"[">> \o n \o <<"]">>

kv(k, v) == k \o <<" ", "=", " ">> \o v

\* the files RCLONE_CONF may hold when the service starts
Seed1 ==
    text_of(<<hdr(<<"a">>), kv(S_type, S_sftp), kv(S_pass, <<"s">>), <<>>,
              hdr(<<"b">>), kv(S_token, <<"t">>), <<>>,
              hdr(<<"c">>), kv(S_type, S_s3)>>)

Seed2 ==
    text_of(<<hdr(<<"a">>), kv(S_type, S_s3), S_token \o <<" ", "=">>,
              kv(S_host, <<"h">>), kv(S_refresh_token, <<"r">>),
              S_client_secret \o <<"=", "x">>>>)

Seed3 ==
    text_of(<<<<"#", "x", "=", "1">>, SP \o hdr(<<"a">>) \o SP,
              S_type \o <<"=">> \o S_sftp, hdr(<<"b">>), kv(<<"k">>, <<"v">>),
              hdr(<<"a">>)>>)
    \o kv(S_user, <<"u">>)

InitConfs == {NoFile, File(Seed1), File(Seed2), File(Seed3)}

(***************************************************************************)
(* The requests of the model.                                              *)
(***************************************************************************)
\* <name> of the URL
RemoteNames == {<<"a">>, <<"b">>, <<"c">>}

UpdateNames == {<<"a">>, <<"b">>}

\* JSON bodies of POST /api/remotes
CreateBodies ==
    {(S_name :> <<" ", "a", " ">>) @@ (S_provider :> S_sftp)
        @@ (S_host :> <<"h">>) @@ (S_pass :> <<"s">>) @@ (S_port :> <<" ">>),
     (S_name :> <<"b">>) @@ (S_provider :> S_onedrive)
        @@ (S_token :> <<"t">>),
     (S_name :> <<"b">>) @@ (S_provider :> S_onedrive)
        @@ (S_drive_type :> S_business),
     (S_name :> <<"d">>) @@ (S_provider :> S_gdrive)
        @@ (S_token :> <<"t">>) @@ (S_root_folder_id :> <<"f">>),
     (S_name :> <<"c">>) @@ (S_provider :> S_s3)
        @@ (S_secret_access_key :> <<"k">>),
     (S_name :> <<"d">>) @@ (S_provider :> S_webdav)
        @@ (S_url :> <<"u">>) @@ (S_pass :> <<"s">>),
     (S_name :> <<"a", " ", "b">>) @@ (S_provider :> S_sftp),
     (S_name :> <<"a">>)}

\* the `config` object of PUT /api/remotes/<name>, in the order of its items
UpdateBodies ==
    {<<>>,
     <<[k |-> S_type, v |-> <<>>]>>,
     <<[k |-> S_pass, v |-> <<" ">>], [k |-> S_host, v |-> <<" ", "x", " ">>]>>,
     <<[k |-> S_type, v |-> S_s3], [k |-> S_token, v |-> <<>>]>>,
     <<[k |-> S_user, v |-> <<"x", NL>> \o hdr(<<"a">>)]>>,
     <<[k |-> S_password, v |-> <<"p">>], [k |-> S_app_key, v |-> <<"y">>],
       [k |-> S_app_secret, v |-> <<"z">>]>>}

\* the `content` of POST /api/rclone-config
UploadContents ==
    {<<" ", NL>>,
     text_of(<<hdr(<<"b">>), kv(S_type, S_sftp)>>),
     text_of(<<hdr(<<"a">>), kv(S_token, <<"t">>)>>)}

NoAnswer == [ok |-> FALSE, drive_id |-> <<>>, drive_type |-> <<>>]

(***************************************************************************)
(* The service: one action for each request handled.                       *)
(***************************************************************************)
Request(op, name, data) == [op |-> op, name |-> name, data |-> data]

\* no request is in a thread of its own
NoThreads ==
    /\ thr = <<>>
    /\ hist = <<>>

\* no log stream is open
NoStream ==
    /\ gen = [pc |-> "none", line |-> 0]
    /\ proc = "none"
    /\ pipe = <<>>
    /\ log = <<>>
    /\ client = "none"
    /\ sent = [events |-> 0, lines |-> 0]

Init ==
    /\ conf \in InitConfs
    /\ baks = <<>>
    /\ now = 0
    /\ budget = MaxReq
    /\ req = Request("none", <<>>, <<>>)
    /\ resp = Err(0, "none")
    /\ old = conf
    /\ sections = <<>>
    /\ replaced = <<>>
    /\ NoThreads
    /\ NoStream
    /\ jobs = <<>>

\* what every request does to the bookkeeping
Handled(r) ==
    /\ budget > 0
    /\ budget' = budget - 1
    /\ req' = r
    /\ old' = conf
    /\ UNCHANGED <<raceVars, streamVars>>

GetRemoteConfig ==
    \E name \in RemoteNames :
        LET r == api_get_remote_config(conf, name)
        IN  /\ Handled(Request("get_remote", name, <<>>))
            /\ conf' = r.conf
            /\ resp' = r.resp
            /\ sections' = r.sections
            /\ UNCHANGED <<baks, now, replaced, jobs>>

GetRcloneConfig ==
    /\ Handled(Request("get_config", <<>>, <<>>))
    /\ resp' = api_get_rclone_config(conf)
    /\ UNCHANGED <<conf, baks, now, sections, replaced, jobs>>

CreateRemote ==
    \E data \in CreateBodies :
        \E g \in IF asks_graph(data)
                 THEN resolve_onedrive_drive_id(
                          get(data, S_drive_type, S_personal))
                 ELSE {NoAnswer} :
            LET r == api_create_remote(conf, data, g)
            IN  /\ Handled(Request("create", strip(get(data, S_name, <<>>)),
                                   data))
                /\ conf' = r.conf
                /\ resp' = r.resp
                /\ sections' = r.sections
                /\ UNCHANGED <<baks, now, replaced, jobs>>

UpdateRemote ==
    \E name \in UpdateNames, updates \in UpdateBodies :
        LET r == api_update_remote(conf, name, updates)
        IN  /\ Handled(Request("update", name, updates))
            /\ conf' = r.conf
            /\ resp' = r.resp
            /\ sections' = r.sections
            /\ UNCHANGED <<baks, now, replaced, jobs>>

DeleteRemote ==
    \E name \in RemoteNames :
        LET r == api_delete_remote(conf, name)
        IN  /\ Handled(Request("delete", name, <<>>))
            /\ conf' = r.conf
            /\ resp' = r.resp
            /\ sections' = r.sections
            /\ UNCHANGED <<baks, now, replaced, jobs>>

\* the clock the handler reads has not run backwards since the last upload
UploadRcloneConfig ==
    \E content \in UploadContents, t \in now..MaxTime :
        LET r == api_upload_rclone_config(conf, baks, content, t)
        IN  /\ Handled(Request("upload", <<>>, content))
            /\ now' = t
            /\ conf' = r.conf
            /\ baks' = r.baks
            /\ resp' = r.resp
            /\ replaced' = IF r.resp.status = 200 /\ conf.exists
                           THEN Append(replaced, conf.text)
                           ELSE replaced
            /\ UNCHANGED <<sections, jobs>>

Next ==
    \/ GetRemoteConfig
    \/ GetRcloneConfig
    \/ CreateRemote
    \/ UpdateRemote
    \/ DeleteRemote
    \/ UploadRcloneConfig

Spec == Init /\ [][Next]_vars

(***************************************************************************)
(* The parser and the serializer on their own: every text of up to         *)
(* MaxLines lines is parsed, and the document parsed is written back.      *)
(***************************************************************************)
\* the lines the texts are made of: headers (one padded, one repeated by
\* it, one with `=` in its name), key lines (normalised or not, one key
\* twice, an empty value), a blank line and brackets around nothing
Lines ==
    {hdr(<<"a">>), hdr(<<"b">>), SP \o hdr(<<"a">>) \o SP,
     hdr(<<"k", "=", "v">>),
     kv(<<"k">>, <<"v">>), <<"k", "=", "w">>, kv(<<"j">>, <<>>),
     <<>>, <<"[", "]">>}

\* a text without its last character
chop(t) == SubSeq(t, 1, Len(t) - 1)

\* the file is missing, or holds a text of up to MaxLines lines, with the
\* last line break or without it
InitText ==
    /\ \/ conf = NoFile
       \/ \E n \in 0..MaxLines :
             \E ls \in [1..n -> Lines] :
                \/ conf = File(text_of(ls))
                \/ n > 0 /\ conf = File(chop(text_of(ls)))
    /\ baks = <<>>
    /\ now = 0
    /\ budget = 0
    /\ req = Request("none", <<>>, <<>>)
    /\ resp = Err(0, "none")
    /\ old = conf
    /\ sections = <<>>
    /\ replaced = <<>>
    /\ NoThreads
    /\ NoStream
    /\ jobs = <<>>

\* sections = read_rclone_sections()
ReadSections ==
    /\ req.op = "none"
    /\ req' = Request("read", <<>>, <<>>)
    /\ old' = conf
    /\ sections' = read_rclone_sections(conf)
    /\ UNCHANGED <<conf, baks, now, budget, resp, replaced, raceVars,
                   streamVars, jobs>>

\* write_rclone_sections(sections)
WriteSections ==
    /\ req.op = "read"
    /\ req' = Request("write", <<>>, <<>>)
    /\ conf' = write_rclone_sections(sections)
    /\ UNCHANGED <<baks, now, budget, resp, old, sections, replaced,
                   raceVars, streamVars, jobs>>

NextText ==
    \/ ReadSections
    \/ WriteSections

SpecText == InitText /\ [][NextText]_vars

(***************************************************************************)
(* Two requests that change RCLONE_CONF, each in a thread of its own: the  *)
(* server of app.run handles every request in a new thread, and no handler *)
(* takes a lock. A handler reads the file, builds its document in memory,  *)
(* opens the file for writing, which empties it, and writes the text when  *)
(* the `with` block closes the file: the texts here are far shorter than   *)
(* the buffer of the file object, so that f.write only fills the buffer.   *)
(***************************************************************************)
Threads == {1, 2}

\* POST, PUT and DELETE requests on /api/remotes
RaceRequests ==
    <<Request("create", <<"d">>,
             (S_name :> <<"d">>) @@ (S_provider :> S_webdav)
                 @@ (S_url :> <<"u">>)),
     Request("create", <<"a">>,
             (S_name :> <<"a">>) @@ (S_provider :> S_sftp)),
     Request("update", <<"a">>,
             <<[k |-> S_pass, v |-> <<" ">>], [k |-> S_host, v |-> <<"x">>]>>),
     Request("update", <<"b">>, <<[k |-> S_token, v |-> <<>>]>>),
     Request("delete", <<"b">>, <<>>),
     Request("delete", <<"c">>, <<>>)>>

\* the route of request r, on file f: [conf, resp, sections]
route(f, r) ==
    IF r.op = "create" THEN api_create_remote(f, r.data, NoAnswer)
    ELSE IF r.op = "update" THEN api_update_remote(f, r.name, r.data)
    ELSE api_delete_remote(f, r.name)

\* open(RCLONE_CONF, 'w'): the file is created, or emptied
open_w(f) == File(<<>>)

\* the end of `with open(RCLONE_CONF, 'w') as f`: the buffered text is
\* written at the position of the file object, the start of the file, over
\* what the file holds by then
close_w(f, text) == File(text \o SubSeq(f.text, Len(text) + 1, Len(f.text)))

\* a thread before its request: pc is its position in the handler, old the
\* file as read_rclone_sections found it, text the serialized document
Idle ==
    [pc |-> "start", r |-> Request("none", <<>>, <<>>), old |-> NoFile,
     text |-> <<>>, resp |-> Err(0, "none")]

InitRace ==
    /\ conf \in {File(Seed1), File(Seed3)}
    /\ baks = <<>>
    /\ now = 0
    /\ budget = 0
    /\ req = Request("none", <<>>, <<>>)
    /\ resp = Err(0, "none")
    /\ old = conf
    /\ sections = <<>>
    /\ replaced = <<>>
    /\ thr = [t \in Threads |-> Idle]
    /\ hist = <<>>
    /\ NoStream
    /\ jobs = <<>>

\* read_rclone_sections() and the work on the document in memory: the
\* handler returns an error, or goes on to write_rclone_sections
RaceRead(t) ==
    /\ thr[t].pc = "start"
    /\ \E i \in DOMAIN RaceRequests :
          LET r == RaceRequests[i]
              h == route(conf, r)
          IN  thr' = [thr EXCEPT ![t] =
                         IF h.resp.status = 200
                         THEN [pc |-> "read", r |-> r, old |-> conf,
                               text |-> h.conf.text, resp |-> Err(0, "none")]
                         ELSE [pc |-> "done", r |-> r, old |-> conf,
                               text |-> <<>>, resp |-> h.resp]]
    /\ hist' = Append(hist, <<t, "read">>)
    /\ UNCHANGED <<conf, baks, now, budget, req, resp, old, sections,
                   replaced, streamVars, jobs>>

\* write_rclone_sections: open(RCLONE_CONF, 'w')
RaceOpen(t) ==
    /\ thr[t].pc = "read"
    /\ thr' = [thr EXCEPT ![t].pc = "open"]
    /\ conf' = open_w(conf)
    /\ hist' = Append(hist, <<t, "open">>)
    /\ UNCHANGED <<baks, now, budget, req, resp, old, sections, replaced,
                   streamVars, jobs>>

\* write_rclone_sections: the file is closed, and the handler returns
RaceClose(t) ==
    /\ thr[t].pc = "open"
    /\ thr' = [thr EXCEPT ![t].pc = "done", ![t].resp = Ok(<<>>)]
    /\ conf' = close_w(conf, thr[t].text)
    /\ hist' = Append(hist, <<t, "close">>)
    /\ UNCHANGED <<baks, now, budget, req, resp, old, sections, replaced,
                   streamVars, jobs>>

NextRace ==
    \/ \E t \in Threads : RaceRead(t)
    \/ \E t \in Threads : RaceOpen(t)
    \/ \E t \in Threads : RaceClose(t)

SpecRace == InitRace /\ [][NextRace]_vars

(***************************************************************************)
(* GET /api/logs/<file>/stream for a log that exists: the server iterates  *)
(* over generate() and writes each event to the client. It learns that the *)
(* client has gone when such a write fails, and then closes the generator, *)
(* which raises GeneratorExit at the yield.                                *)
(***************************************************************************)
\* lines appended to the log file while the stream is open
MaxLogLines == 3

\* b'', what readline() returns at the end of the file
EOF == 0

\* the log file holds a line that tail has still to print, or none
InitStream ==
    /\ conf = NoFile
    /\ baks = <<>>
    /\ now = 0
    /\ budget = 0
    /\ req = Request("none", <<>>, <<>>)
    /\ resp = Err(0, "none")
    /\ old = conf
    /\ sections = <<>>
    /\ replaced = <<>>
    /\ NoThreads
    /\ gen = [pc |-> "start", line |-> EOF]
    /\ proc = "none"
    /\ pipe = <<>>
    /\ log \in {<<>>, <<1>>}
    /\ client = "connected"
    /\ sent = [events |-> 0, lines |-> Len(log)]
    /\ jobs = <<>>

\* what no step of a stream changes
StreamOnly ==
    UNCHANGED <<conf, baks, now, budget, req, resp, old, sections, replaced,
                raceVars, jobs>>

\* the first next() of the server: proc = subprocess.Popen(['tail', '-f', ..
GenStart ==
    /\ gen.pc = "start"
    /\ gen' = [gen EXCEPT !.pc = "readline"]
    /\ proc' = "running"
    /\ UNCHANGED <<pipe, log, client, sent>>
    /\ StreamOnly

\* line = proc.stdout.readline(): the next line of the pipe; with the pipe
\* empty the call blocks while tail holds the pipe open, and returns b''
\* once tail is gone
GenReadline ==
    /\ gen.pc = "readline"
    /\ \/ /\ pipe # <<>>
          /\ gen' = [pc |-> "test", line |-> Head(pipe)]
          /\ pipe' = Tail(pipe)
       \/ /\ pipe = <<>>
          /\ proc \in {"exited", "killed"}
          /\ gen' = [pc |-> "test", line |-> EOF]
          /\ UNCHANGED pipe
    /\ UNCHANGED <<proc, log, client, sent>>
    /\ StreamOnly

\* if line: yield ...; otherwise the loop goes round
GenTest ==
    /\ gen.pc = "test"
    /\ gen' = [gen EXCEPT !.pc = IF gen.line # EOF THEN "yield"
                                 ELSE "readline"]
    /\ UNCHANGED <<proc, pipe, log, client, sent>>
    /\ StreamOnly

\* the server writes the event to the client and calls next()
ServerSend ==
    /\ gen.pc = "yield"
    /\ client = "connected"
    /\ sent' = [sent EXCEPT !.events = @ + 1]
    /\ gen' = [gen EXCEPT !.pc = "readline"]
    /\ UNCHANGED <<proc, pipe, log, client>>
    /\ StreamOnly

\* the write to a client that has gone fails and the server closes the
\* generator: except GeneratorExit: proc.kill(), which leaves alone a
\* process that has exited
ServerClose ==
    /\ gen.pc = "yield"
    /\ client = "gone"
    /\ gen' = [gen EXCEPT !.pc = "closed"]
    /\ proc' = IF proc = "running" THEN "killed" ELSE proc
    /\ UNCHANGED <<pipe, log, client, sent>>
    /\ StreamOnly

\* tail -f prints a line of the log file to the pipe
TailRelay ==
    /\ proc = "running"
    /\ log # <<>>
    /\ pipe' = Append(pipe, Head(log))
    /\ log' = Tail(log)
    /\ UNCHANGED <<gen, proc, client, sent>>
    /\ StreamOnly

\* tail ends by itself
TailExit ==
    /\ proc = "running"
    /\ proc' = "exited"
    /\ UNCHANGED <<gen, pipe, log, client, sent>>
    /\ StreamOnly

\* a backup job appends a line to the log file
LogAppend ==
    /\ sent.lines < MaxLogLines
    /\ log' = Append(log, sent.lines + 1)
    /\ sent' = [sent EXCEPT !.lines = @ + 1]
    /\ UNCHANGED <<gen, proc, pipe, client>>
    /\ StreamOnly

\* the client closes the connection
ClientDisconnect ==
    /\ client = "connected"
    /\ client' = "gone"
    /\ UNCHANGED <<gen, proc, pipe, log, sent>>
    /\ StreamOnly

NextStream ==
    \/ GenStart
    \/ GenReadline
    \/ GenTest
    \/ ServerSend
    \/ ServerClose
    \/ TailRelay
    \/ TailExit
    \/ LogAppend
    \/ ClientDisconnect

\* the thread of the request and the tail process run when they can; the
\* log need not grow, tail need not end and the client need not leave
SpecStream ==
    /\ InitStream
    /\ [][NextStream]_vars
    /\ WF_vars(GenStart)
    /\ WF_vars(GenReadline)
    /\ WF_vars(GenTest)
    /\ WF_vars(ServerSend)
    /\ WF_vars(ServerClose)
    /\ WF_vars(TailRelay)

(***************************************************************************)
(* The backup jobs: POST /api/jobs, PUT and DELETE /api/jobs/<job_id>, on  *)
(* the list that load_jobs reads from JOBS_FILE and save_jobs writes to it. *)
(***************************************************************************)
\* requests on the jobs in one behaviour
MaxJobReq == 3

\* [e.strip() for e in excludes if e.strip()]
strip_excludes(es) ==
    SelectSeq([i \in 1..Len(es) |-> strip(es[i])], LAMBDA e : e # <<>>)

\* POST /api/jobs with the uuid and the clock it draws: [jobs, resp]
api_create_job(js, data, id, t) ==
    LET name == strip(get(data, "name", <<>>))
        remote_name == strip(get(data, "remote_name", <<>>))
        backup_path == strip(get(data, "backup_path", <<>>))
        job == [id |-> id,
                name |-> name,
                cloud_provider |-> get(data, "cloud_provider", "onedrive"),
                remote_name |-> remote_name,
                backup_path |-> backup_path,
                excludes |-> strip_excludes(get(data, "excludes", <<>>)),
                schedule_time |-> get(data, "schedule_time", "02:00"),
                schedule_days |-> get(data, "schedule_days",
                                      <<0, 1, 2, 3, 4, 5, 6>>),
                enabled |-> get(data, "enabled", TRUE),
                created |-> t]
    IN  IF name = <<>> \/ remote_name = <<>> \/ backup_path = <<>>
        THEN [jobs |-> js, resp |-> Err(400, "required")]
        ELSE IF \E i \in 1..Len(js) : js[i].name = name
        THEN [jobs |-> js, resp |-> Err(400, "exists")]
        ELSE [jobs |-> Append(js, job), resp |-> Ok(job)]

\* the keys that PUT /api/jobs/<job_id> copies from the request as they are
UpdateKeys ==
    {"name", "cloud_provider", "remote_name", "backup_path", "enabled",
     "schedule_time", "schedule_days"}

\* the job j after the assignments of api_update_job
updated_job(j, data) ==
    [key \in DOMAIN j |->
        IF key \in UpdateKeys /\ key \in DOMAIN data THEN data[key]
        ELSE IF key = "excludes" /\ key \in DOMAIN data
        THEN strip_excludes(data[key])
        ELSE j[key]]

\* PUT /api/jobs/<job_id>: the first job of that id is changed: [jobs, resp]
api_update_job(js, job_id, data) ==
    IF \E i \in 1..Len(js) : js[i].id = job_id
    THEN LET i == MinOf({n \in 1..Len(js) : js[n].id = job_id})
             j == updated_job(js[i], data)
         IN  [jobs |-> [js EXCEPT ![i] = j], resp |-> Ok(j)]
    ELSE [jobs |-> js, resp |-> Err(404, "not_found")]

\* DELETE /api/jobs/<job_id>: [jobs, resp]
api_delete_job(js, job_id) ==
    LET new_jobs == SelectSeq(js, LAMBDA j : j.id # job_id)
    IN  IF Len(new_jobs) = Len(js)
        THEN [jobs |-> js, resp |-> Err(404, "not_found")]
        ELSE [jobs |-> new_jobs, resp |-> Ok(<<>>)]

\* the ids of the model
JobIds == {"1", "2", "3"}

\* str(uuid.uuid4())[:8]: random digits, taken to differ from the ids of the
\* jobs in the list
uuid4(js) == {id \in JobIds : \A i \in 1..Len(js) : js[i].id # id}

\* <job_id> of the URL: the ids, and one that no job has
UrlJobIds == JobIds \cup {"0"}

\* JSON bodies of POST /api/jobs
CreateJobBodies ==
    <<[name |-> <<"a">>, remote_name |-> <<"r">>, backup_path |-> <<"p">>],
      [name |-> <<" ", "a", " ">>, remote_name |-> <<"r">>,
       backup_path |-> <<"q">>, enabled |-> FALSE],
      [name |-> <<"b">>, remote_name |-> <<"r">>, backup_path |-> <<"p">>,
       excludes |-> << <<" ", "x">>, <<" ">> >>],
      [name |-> <<"b">>, remote_name |-> <<" ">>, backup_path |-> <<"p">>],
      [remote_name |-> <<"r">>, backup_path |-> <<"p">>]>>

\* JSON bodies of PUT /api/jobs/<job_id>
UpdateJobBodies ==
    <<[name |-> <<"a">>],
      [name |-> <<"b">>, enabled |-> FALSE],
      [remote_name |-> <<"s">>],
      [excludes |-> << <<" ">>, <<"y", " ">> >>]>>

InitJobs ==
    /\ conf = NoFile
    /\ baks = <<>>
    /\ now = 0
    /\ budget = MaxJobReq
    /\ req = Request("none", <<>>, <<>>)
    /\ resp = Err(0, "none")
    /\ old = conf
    /\ sections = <<>>
    /\ replaced = <<>>
    /\ NoThreads
    /\ NoStream
    /\ jobs = <<>>

CreateJob ==
    \E n \in DOMAIN CreateJobBodies, id \in uuid4(jobs) :
        LET data == CreateJobBodies[n]
            r == api_create_job(jobs, data, id, now)
        IN  /\ Handled(Request("create_job", strip(get(data, "name", <<>>)),
                               data))
            /\ jobs' = r.jobs
            /\ resp' = r.resp
            /\ UNCHANGED <<conf, baks, now, sections, replaced>>

UpdateJob ==
    \E job_id \in UrlJobIds, n \in DOMAIN UpdateJobBodies :
        LET data == UpdateJobBodies[n]
            r == api_update_job(jobs, job_id, data)
        IN  /\ Handled(Request("update_job", job_id, data))
            /\ jobs' = r.jobs
            /\ resp' = r.resp
            /\ UNCHANGED <<conf, baks, now, sections, replaced>>

DeleteJob ==
    \E job_id \in UrlJobIds :
        LET r == api_delete_job(jobs, job_id)
        IN  /\ Handled(Request("delete_job", job_id, <<>>))
            /\ jobs' = r.jobs
            /\ resp' = r.resp
            /\ UNCHANGED <<conf, baks, now, sections, replaced>>

NextJobs ==
    \/ CreateJob
    \/ UpdateJob
    \/ DeleteJob

SpecJobs == InitJobs /\ [][NextJobs]_vars

(***************************************************************************)
(* Reading a text line by line, for the statements below.                  *)
(***************************************************************************)
IsHeaderLine(l) == header_match(strip(l))

HeaderName(l) == header_group(strip(l))

IsKeyLine(l) == ~IsHeaderLine(l) /\ contains(l, "=")

KeyOf(l) == strip(partition_head(l, "="))

ValueOf(l) == strip(partition_tail(l, "="))

\* the lines that name section n
HeadersOf(ls, n) ==
    {i \in 1..Len(ls) : IsHeaderLine(ls[i]) /\ HeaderName(ls[i]) = n}

\* the key lines that follow header line i, up to the next header line
BlockOf(ls, i) ==
    {j \in (i + 1)..Len(ls) :
        /\ IsKeyLine(ls[j])
        /\ \A h \in (i + 1)..j : ~IsHeaderLine(ls[h])}

\* a line written exactly as `[name]`
IsPlainHeader(l) == Len(l) >= 3 /\ l[1] = "[" /\ l[Len(l)] = "]"

\* a line written exactly as `key = value`: one blank on each side of the
\* first `=`, and no other blank around the key or the value
IsPlainKeyLine(l) ==
    /\ ~IsPlainHeader(l)
    /\ contains(l, "=")
    /\ LET h == partition_head(l, "=")
           t == partition_tail(l, "=")
       IN  /\ Len(h) >= 1 /\ h[Len(h)] = " "
           /\ Len(t) >= 1 /\ t[1] = " "
           /\ (Len(h) >= 2 => h[1] \notin WS /\ h[Len(h) - 1] \notin WS)
           /\ (Len(t) >= 2 => t[2] \notin WS /\ t[Len(t)] \notin WS)

\* a well-formed config text: every line ends in a line break; the first
\* line is a header; every line is a header, a key line of its section or
\* the one blank line before the next header; no section name and no key of
\* a section comes twice
WellFormed(t) ==
    LET ls == file_lines(t)
    IN  /\ t # <<>> => t[Len(t)] = NL
        /\ ls # <<>> => IsPlainHeader(ls[1])
        /\ \A i \in 1..Len(ls) :
              \/ IsPlainHeader(ls[i])
                 /\ (i > 1 => ls[i - 1] = <<>>)
                 /\ HeadersOf(ls, HeaderName(ls[i])) = {i}
              \/ IsPlainKeyLine(ls[i])
                 /\ i > 1
                 /\ ls[i - 1] # <<>>
                 /\ \A j \in 1..(i - 1) :
                       (IsPlainKeyLine(ls[j]) /\ KeyOf(ls[j]) = KeyOf(ls[i]))
                       => \E h \in j..i : IsPlainHeader(ls[h])
              \/ ls[i] = <<>>
                 /\ 1 < i /\ i < Len(ls)
                 /\ ls[i - 1] # <<>>
                 /\ IsPlainHeader(ls[i + 1])

(***************************************************************************)
(* C1. Parsing a text, writing the document parsed and parsing the file    *)
(* written gives the document of the first parse: the same section names   *)
(* in the same order, each with the same keys in the same order and the    *)
(* same values.                                                            *)
(***************************************************************************)
C1_ReparseEqual ==
    req.op = "write" =>
        /\ sections = read_rclone_sections(old)
        /\ read_rclone_sections(conf) = sections

\* a text of two sections and a key that the round trip rewrites
C1_Witness ==
    /\ req.op = "write"
    /\ Len(sections) >= 2
    /\ \E i \in 1..Len(sections) : sections[i].v # <<>>
    /\ conf.text # old.text

(***************************************************************************)
(* C2. Writing the document parsed from a well-formed text reproduces the  *)
(* text exactly.                                                           *)
(***************************************************************************)
C2_WellFormedReproduced ==
    (req.op = "write" /\ WellFormed(old.text)) => conf.text = old.text

\* a well-formed text of two sections, one of them with a key
C2_Witness ==
    /\ req.op = "write"
    /\ WellFormed(old.text)
    /\ Len(sections) >= 2
    /\ \E i \in 1..Len(sections) : sections[i].v # <<>>

(***************************************************************************)
(* C3, as amended. A header that names a section again replaces the        *)
(* section's keys by none: the section keeps the place of its first        *)
(* header, and holds exactly the keys given after its last header, each    *)
(* with the value of its last line there.                                  *)
(***************************************************************************)
C3_LastHeaderWins ==
    req.op = "read" =>
        LET ls == file_lines(old.text)
            names == {HeaderName(ls[i]) :
                          i \in {j \in 1..Len(ls) : IsHeaderLine(ls[j])}}
        IN  /\ od_keys(sections) = names
            /\ \A a, b \in 1..Len(sections) :
                  a < b => MinOf(HeadersOf(ls, sections[a].k))
                           < MinOf(HeadersOf(ls, sections[b].k))
            /\ \A a \in 1..Len(sections) :
                  LET blk == BlockOf(ls, MaxOf(HeadersOf(ls, sections[a].k)))
                      p == sections[a].v
                  IN  /\ od_keys(p) = {KeyOf(ls[j]) : j \in blk}
                      /\ \A x \in 1..Len(p) :
                            p[x].v = ValueOf(ls[MaxOf({j \in blk :
                                                 KeyOf(ls[j]) = p[x].k})])

\* a header comes twice, with a key after its first occurrence
C3_Witness ==
    /\ req.op = "read"
    /\ \E a \in 1..Len(sections) :
          LET ls == file_lines(old.text)
              hs == HeadersOf(ls, sections[a].k)
          IN  /\ Cardinality(hs) >= 2
              /\ BlockOf(ls, MinOf(hs)) # {}
              /\ BlockOf(ls, MaxOf(hs)) # {}

\* C3 as stated: the section holds the keys that follow every one of its
\* headers
C3_AsStated ==
    req.op = "read" =>
        \A a \in 1..Len(sections) :
            LET ls == file_lines(old.text)
            IN  \A i \in HeadersOf(ls, sections[a].k) :
                    \A j \in BlockOf(ls, i) :
                        KeyOf(ls[j]) \in od_keys(sections[a].v)

(***************************************************************************)
(* The key names the redacted views are to hide.                           *)
(***************************************************************************)
NamedSecrets ==
    {S_token, S_client_secret, S_secret_access_key, S_pass, S_password,
     S_app_key, S_app_secret}

IsSecretLine(l) == IsKeyLine(l) /\ KeyOf(l) \in NamedSecrets

(***************************************************************************)
(* C4. The config view of a section returns the marker for every key that  *)
(* names a secret and the stored value for every other key, and leaves the *)
(* file as it was.                                                         *)
(***************************************************************************)
C4_RemoteConfigRedacted ==
    req.op = "get_remote" =>
        LET s == read_rclone_sections(old)
        IN  /\ conf = old
            /\ IF ~od_has(s, req.name) THEN resp.status = 404
               ELSE LET p == od_get(s, req.name)
                    IN  /\ resp.status = 200
                        /\ Len(resp.body) = Len(p)
                        /\ \A i \in 1..Len(p) :
                              /\ resp.body[i].k = p[i].k
                              /\ resp.body[i].v =
                                    IF p[i].k \in NamedSecrets
                                    THEN REDACTED ELSE p[i].v

\* a section viewed with a secret, which is hidden, and another key
C4_Witness ==
    /\ req.op = "get_remote"
    /\ resp.status = 200
    /\ \E i, j \in 1..Len(resp.body) :
          /\ resp.body[i].k \in NamedSecrets
          /\ od_get(od_get(read_rclone_sections(old), req.name),
                    resp.body[i].k) \notin {<<>>, REDACTED}
          /\ resp.body[j].k \notin NamedSecrets

(***************************************************************************)
(* C5, as stated. The view of the whole file returns the marker as the     *)
(* value of every line whose key names a secret (stated here for the lines *)
(* that have a value to hide).                                             *)
(***************************************************************************)
C5_AsStated ==
    req.op = "get_config" =>
        LET a == file_lines(old.text)
            b == file_lines(resp.body)
        IN  \A i \in 1..Len(a) :
                (IsSecretLine(a[i]) /\ ValueOf(a[i]) # <<>>) =>
                    /\ i <= Len(b)
                    /\ IsKeyLine(b[i])
                    /\ KeyOf(b[i]) = KeyOf(a[i])
                    /\ ValueOf(b[i]) = REDACTED

(***************************************************************************)
(* C6, as stated. The view of the whole file returns every line whose key  *)
(* names no secret, headers included, as it is in the file.                *)
(***************************************************************************)
C6_AsStated ==
    req.op = "get_config" =>
        LET a == file_lines(old.text)
            b == file_lines(resp.body)
        IN  /\ Len(b) = Len(a)
            /\ \A i \in 1..Len(a) : ~IsSecretLine(a[i]) => b[i] = a[i]

C8_AsStated ==
    (/\ req.op = "update"
     /\ od_has(read_rclone_sections(old), req.name)
     /\ od_has(od_get(read_rclone_sections(old), req.name), S_type))
    => /\ od_has(read_rclone_sections(conf), req.name)
       /\ od_has(od_get(read_rclone_sections(conf), req.name), S_type)

(***************************************************************************)
(* C9. Deleting a remote that is no section of the file fails and writes   *)
(* nothing; deleting a section removes it alone: the other sections are    *)
(* there afterwards, in the same order, with the same keys and values.     *)
(***************************************************************************)
Others(e) == e.k # req.name

C9_DeleteRemovesOnlyThat ==
    req.op = "delete" =>
        LET s == read_rclone_sections(old)
        IN  IF ~od_has(s, req.name)
            THEN resp.status = 404 /\ conf = old
            ELSE /\ resp.status = 200
                 /\ read_rclone_sections(conf) = SelectSeq(s, Others)

\* the section deleted stood between two others
C9_Witness ==
    /\ req.op = "delete"
    /\ resp.status = 200
    /\ LET s == read_rclone_sections(old)
       IN  /\ Len(s) >= 3
           /\ od_index(s, req.name) \notin {1, Len(s)}
           /\ \E i \in 1..Len(s) : s[i].k # req.name /\ s[i].v # <<>>

(***************************************************************************)
(* C10, as stated. The content that each successful upload replaced is     *)
(* still the content of a backup file.                                     *)
(***************************************************************************)
C10_AsStated ==
    \A i \in 1..Len(replaced) : \E ts \in DOMAIN baks : baks[ts] = replaced[i]

(***************************************************************************)
(* The steps of the threads, for the statement on concurrent requests.     *)
(***************************************************************************)
Did(t, e) == \E i \in 1..Len(hist) : hist[i] = <<t, e>>

At(t, e) == CHOOSE i \in 1..Len(hist) : hist[i] = <<t, e>>

\* t and u have both written, t closing the file before u
WroteInOrder(t, u) ==
    /\ t # u
    /\ Did(t, "close") /\ Did(u, "close")
    /\ At(t, "close") < At(u, "close")

\* both threads read the file before either opened it for writing
BothReadFirst(t, u) ==
    /\ At(t, "read") < At(t, "open") /\ At(t, "read") < At(u, "open")
    /\ At(u, "read") < At(t, "open") /\ At(u, "read") < At(u, "open")

\* t had returned before u read the file
OneAfterTheOther(t, u) == At(t, "close") < At(u, "read")

\* the requests of two threads one after the other: the later one reads
\* what the earlier one wrote, and the file is the later one's document
C11_Sequential ==
    \A t, u \in Threads :
        WroteInOrder(t, u) /\ OneAfterTheOther(t, u) =>
            /\ thr[t].resp.status = 200 /\ thr[u].resp.status = 200
            /\ thr[u].old = File(thr[t].text)
            /\ conf = File(thr[u].text)

\* both threads read before either wrote: both report success, and the file
\* is the document of the thread that wrote last
C11_LaterWriterWins ==
    \A t, u \in Threads :
        WroteInOrder(t, u) /\ BothReadFirst(t, u) =>
            /\ thr[t].resp.status = 200 /\ thr[u].resp.status = 200
            /\ thr[t].old = thr[u].old
            /\ conf = File(thr[u].text)

(***************************************************************************)
(* C11, as stated. Of two requests that change the config file, when both  *)
(* read before either writes, both report success and the file is exactly  *)
(* the document of the later writer, made of its own snapshot and its own  *)
(* change; when one runs after the other, both changes are in the file.    *)
(***************************************************************************)
C11_AsStated == C11_LaterWriterWins /\ C11_Sequential

(***************************************************************************)
(* The ends of a log stream.                                               *)
(***************************************************************************)
\* the relay loop has ended and no tail process of the stream is running
StreamEnded == gen.pc = "closed" /\ proc # "running"

\* the client left while the generator was suspended at its yield
C12_AtYield == (client = "gone" /\ gen.pc = "yield") ~> StreamEnded

\* the client left while readline() waits for the next line, and tail
\* keeps running
C12_Blocked ==
    [](proc # "exited") =>
        ((client = "gone" /\ gen.pc = "readline" /\ pipe = <<>>)
            ~> StreamEnded)

\* the client left a stream whose tail process has exited
C12_TailExited == (client = "gone" /\ proc = "exited") ~> StreamEnded

(***************************************************************************)
(* C12, as stated. Once the client of a log stream has disconnected, the   *)
(* relay loop ends and the tail process of the stream is killed, whatever  *)
(* the loop was doing when the client left.                                *)
(***************************************************************************)
C12_AsStated == (client = "gone") ~> StreamEnded

(***************************************************************************)
(* The names of the stored jobs.                                           *)
(***************************************************************************)
UniqueNames(js) ==
    \A i, k \in 1..Len(js) : i # k => js[i].name # js[k].name

\* a create-job request with the name of a stored job is rejected and
\* leaves the list as it was, and a create-job request that is accepted
\* adds no second job of its name
C13_CreateKeepsUnique ==
    [][req'.op = "create_job" =>
          /\ (\E i \in 1..Len(jobs) : jobs[i].name = req'.name) =>
                 resp'.status = 400 /\ jobs' = jobs
          /\ UniqueNames(jobs) => UniqueNames(jobs')]_vars

\* a delete-job request adds no second job of a name
C13_DeleteKeepsUnique ==
    [][req'.op = "delete_job" =>
          (UniqueNames(jobs) => UniqueNames(jobs'))]_vars

(***************************************************************************)
(* C13, as stated. Starting from the empty list, after any sequence of     *)
(* create-job, update-job and delete-job requests no two stored jobs have  *)
(* the same name.                                                          *)
(***************************************************************************)
C13_AsStated == UniqueNames(jobs)

====
